---- MODULE Spec2Model ----
(***************************************************************************)
(* Model of extract_messages.py: the command line entry point (main), the  *)
(* chat listing (list_chats) and the message extraction (extract_messages) *)
(* with its two-tier decoding of the attributedBody payload.               *)
(*                                                                         *)
(* Strings and byte strings are sequences of code points / byte values.    *)
(* Python's None is the sentinel sequence PyNone.                           *)
(***************************************************************************)
EXTENDS Integers, Sequences, FiniteSets, TLC

\* ------------------------------------------------------------------ bounds
MaxRows == 2
MaxDate == 2
MaxPieces == 4

\* ------------------------------------------------------- python primitives
PyNone == <<-1>>

\* U+FFFC, the object replacement character of lines 147 and 151
ObjReplChar == 65532
ObjRepl == <<ObjReplChar>>

\* the characters str.strip() removes (str.isspace), up to U+00A0
WhitespaceChars == {9, 10, 11, 12, 13, 28, 29, 30, 31, 32, 133, 160}

\* truth value of a str / bytes / None operand (`if x`, `not x`, `x and ...`)
Truthy(s) == s # PyNone /\ Len(s) > 0

RECURSIVE LStrip(_)
LStrip(s) ==
    IF s # <<>> /\ Head(s) \in WhitespaceChars THEN LStrip(Tail(s)) ELSE s

RECURSIVE RStrip(_)
RStrip(s) ==
    IF s # <<>> /\ s[Len(s)] \in WhitespaceChars
    THEN RStrip(SubSeq(s, 1, Len(s) - 1))
    ELSE s

\* str.strip()
Strip(s) == RStrip(LStrip(s))

\* str(x): a str is itself, None becomes the four characters "None"
PyStr(x) == IF x = PyNone THEN <<78, 111, 110, 101>> ELSE x

\* isinstance(x, str) for the values of the model (strings and None)
IsStr(x) == x # PyNone

\* `keyword in potential`
Contains(s, k) ==
    \E p \in 1..(Len(s) - Len(k) + 1) : SubSeq(s, p, p + Len(k) - 1) = k

\* potential.replace(' ', '')
RECURSIVE RemoveSpaces(_)
RemoveSpaces(s) ==
    IF s = <<>> THEN <<>>
    ELSE IF Head(s) = 32 THEN RemoveSpaces(Tail(s))
    ELSE <<Head(s)>> \o RemoveSpaces(Tail(s))

\* str.isdigit() on decoded ASCII text: non-empty and every character 0-9
IsDigit(s) == s # <<>> /\ \A p \in 1..Len(s) : s[p] \in 48..57

\* bytes.decode('utf-8', errors='strict') of a run: every byte of a run is
\* below 128 and decodes to the code point of the same value; any other
\* byte makes the strict decode fail (PyNone stands for the exception)
DecodeUtf8(bs) ==
    IF \A p \in 1..Len(bs) : bs[p] < 128 THEN bs ELSE PyNone

\* order of Python str values (by code point)
RECURSIVE StrLess(_, _)
StrLess(a, b) ==
    IF b = <<>> THEN FALSE
    ELSE IF a = <<>> THEN TRUE
    ELSE IF Head(a) # Head(b) THEN Head(a) < Head(b)
    ELSE StrLess(Tail(a), Tail(b))

\* order of the (len(potential), potential) tuples of candidate_texts
TupleLess(c, d) == c[1] < d[1] \/ (c[1] = d[1] /\ StrLess(c[2], d[2]))

\* --------------------------------------------------- Tier 2: the byte scan
skip_keywords ==
    { <<115, 116, 114, 101, 97, 109, 116, 121, 112, 101, 100>>,
      <<78, 83, 83, 116, 114, 105, 110, 103>>,
      <<78, 83, 65, 116, 116, 114, 105, 98, 117, 116, 101, 100, 83, 116, 114, 105, 110, 103>>,
      <<78, 83, 77, 117, 116, 97, 98, 108, 101, 83, 116, 114, 105, 110, 103>>,
      <<95, 95, 107, 73, 77>>,
      <<65, 116, 116, 114, 105, 98, 117, 116, 101, 78, 97, 109, 101>>,
      <<78, 83, 68, 97, 116, 97>>,
      <<98, 112, 108, 105, 115, 116>>,
      <<82, 101, 108, 97, 116, 105, 118, 101, 68, 97, 121>>,
      <<68, 97, 116, 101, 84, 105, 109, 101>>,
      <<78, 83, 78, 117, 109, 98, 101, 114>>,
      <<78, 83, 68, 97, 116, 101>>,
      <<78, 83, 85, 82, 76>>,
      <<78, 83, 86, 97, 108, 117, 101>> }

\* attributed_body[i], with Python's index from 0
ByteAt(body, i) == body[i + 1]

\* attributed_body[i:end]
Slice(body, i, end) == SubSeq(body, i + 1, end)

\* line 110: a run starts at a printable ASCII byte
StartsRun(b) == 32 <= b /\ b <= 126

\* line 113: a run continues over printable ASCII, line feed, carriage return
InRun(b) == (32 <= b /\ b <= 126) \/ b \in {10, 13}

\* lines 112-114: the inner while loop
RECURSIVE RunEnd(_, _)
RunEnd(body, end) ==
    IF end < Len(body) /\ InRun(ByteAt(body, end))
    THEN RunEnd(body, end + 1)
    ELSE end

\* line 116 with the bound off by one: a run of six bytes is passed over
LongEnough_Seven(i, end) == end > i + 6

\* line 116
LongEnough(i, end) == end > i + 5

\* lines 117-125: the candidates one run adds to candidate_texts
RunCandidates(body, i, end) ==
    LET decoded == DecodeUtf8(Slice(body, i, end))
        potential == Strip(decoded)
        is_metadata == \E keyword \in skip_keywords : Contains(potential, keyword)
    IN  IF decoded # PyNone
           /\ ~is_metadata
           /\ Len(potential) > 5
           /\ ~IsDigit(RemoveSpaces(potential))
        THEN << <<Len(potential), potential>> >>
        ELSE <<>>

\* lines 110-128: one iteration of the outer while loop, from (i, candidate_texts)
ScanStep(body, i, cands) ==
    IF StartsRun(ByteAt(body, i))
    THEN LET end == RunEnd(body, i)
         IN  [i |-> end,
              cands |-> IF LongEnough(i, end)
                        THEN cands \o RunCandidates(body, i, end)
                        ELSE cands]
    ELSE [i |-> i + 1, cands |-> cands]

\* line 108: the loop condition
ScanContinues(body, i) == i < Len(body) - 4

\* lines 131-133: candidate_texts.sort(reverse=True); candidate_texts[0][1]
SelectCandidate(cands) ==
    IF cands = <<>> THEN PyNone
    ELSE LET top == CHOOSE p \in 1..Len(cands) :
                        \A q \in 1..Len(cands) : ~TupleLess(cands[p], cands[q])
         IN  cands[top][2]

\* lines 106-128: the whole outer loop
RECURSIVE ScanFrom(_, _, _)
ScanFrom(body, i, cands) ==
    IF ScanContinues(body, i)
    THEN LET s == ScanStep(body, i, cands) IN ScanFrom(body, s.i, s.cands)
    ELSE cands

\* lines 94-135: the heuristic scan of a payload
Tier2(body) == SelectCandidate(ScanFrom(body, 0, <<>>))

\* ------------------------------------------------ Tier 1: structured decode
\* What archiver.unarchive(attributed_body) does with a payload (line 59):
\*   kind "raise" : it raises (any exception inside the try block of 57-91)
\*   kind "attr"  : an object with a `string` attribute (its value in .string)
\*   kind "dict"  : an object without `string` but with a __dict__ (.items,
\*                  the (key, value) pairs in iteration order)
\*   kind "str"   : a plain str (in .string)
\*   kind "other" : any other object (no `string`, no __dict__, not a str)
Dec(kind, string, items) == [kind |-> kind, string |-> string, items |-> items]

\* `key in decoded.__dict__`
HasKey(items, key) == \E p \in 1..Len(items) : items[p][1] = key

\* decoded.__dict__[key]
DictGet(items, key) ==
    items[CHOOSE p \in 1..Len(items) : items[p][1] = key][2]

\* lines 80-83: the first of the conventional keys with a truthy value
RECURSIVE ProbeKeys(_, _)
ProbeKeys(items, keys) ==
    IF keys = <<>> THEN PyNone
    ELSE IF HasKey(items, Head(keys)) /\ Truthy(DictGet(items, Head(keys)))
    THEN PyStr(DictGet(items, Head(keys)))
    ELSE ProbeKeys(items, Tail(keys))

\* lines 86-89: the first value that is a str with value.strip() truthy
RECURSIVE FirstStrValue(_)
FirstStrValue(items) ==
    IF items = <<>> THEN PyNone
    ELSE IF IsStr(Head(items)[2]) /\ Truthy(Strip(Head(items)[2]))
    THEN Head(items)[2]
    ELSE FirstStrValue(Tail(items))

\* lines 76-91: message_text after a successful unarchive
Tier1(decoded) ==
    IF decoded.kind = "attr" THEN PyStr(decoded.string)
    ELSE IF decoded.kind = "dict"
    THEN LET probed == ProbeKeys(decoded.items, <<"NSString", "string", "text">>)
         IN  IF ~Truthy(probed) THEN FirstStrValue(decoded.items) ELSE probed
    ELSE IF decoded.kind = "str" THEN decoded.string
    ELSE PyNone

\* DecodeBody without the except clause of line 92: the exception of the
\* structured decode leaves the try statement
DecodeBody_NoExcept(row) ==
    IF Truthy(row.attributed_body)
    THEN IF row.unarchived.kind = "raise"
         THEN [message_text |-> PyNone,
               raised |-> TRUE, scanned |-> FALSE, escaped |-> TRUE]
         ELSE [message_text |-> Tier1(row.unarchived),
               raised |-> FALSE, scanned |-> FALSE, escaped |-> FALSE]
    ELSE [message_text |-> PyNone,
          raised |-> FALSE, scanned |-> FALSE, escaped |-> FALSE]

\* DecodeBody with the byte scan also run when the structured decode
\* succeeded and found no text
DecodeBody_ScanWhenNoText(row) ==
    IF Truthy(row.attributed_body)
    THEN IF row.unarchived.kind = "raise" \/ ~Truthy(Tier1(row.unarchived))
         THEN [message_text |-> Tier2(row.attributed_body),
               raised |-> row.unarchived.kind = "raise",
               scanned |-> TRUE, escaped |-> FALSE]
         ELSE [message_text |-> Tier1(row.unarchived),
               raised |-> FALSE, scanned |-> FALSE, escaped |-> FALSE]
    ELSE [message_text |-> PyNone,
          raised |-> FALSE, scanned |-> FALSE, escaped |-> FALSE]

\* lines 53-135: message_text after the decoding of one row's payload.
\*   raised  : the structured decode raised
\*   scanned : the byte scan of lines 94-135 ran
\*   escaped : an exception left the try statement of lines 57-135
DecodeBody(row) ==
    IF Truthy(row.attributed_body)
    THEN IF row.unarchived.kind = "raise"
         THEN [message_text |-> Tier2(row.attributed_body),
               raised |-> TRUE, scanned |-> TRUE, escaped |-> FALSE]
         ELSE [message_text |-> Tier1(row.unarchived),
               raised |-> FALSE, scanned |-> FALSE, escaped |-> FALSE]
    ELSE [message_text |-> PyNone,
          raised |-> FALSE, scanned |-> FALSE, escaped |-> FALSE]

\* lines 147-148: fall back to the plain text field
Fallback(message_text, text) ==
    IF ~Truthy(message_text) /\ Truthy(text) /\ Truthy(Strip(text))
       /\ Strip(text) # ObjRepl
    THEN text
    ELSE message_text

\* line 151: the condition under which the message line is printed
HasText(message_text) == Truthy(message_text) /\ Strip(message_text) # ObjRepl

\* line 34: the date column, seconds since the Unix epoch (its rendering as
\* local time YYYY-MM-DD HH:MM:SS is one-to-one and is not modelled further)
NsPerSecond == 1000000000
Epoch2001 == 978307200
DateColumn(date) == (date \div NsPerSecond) + Epoch2001

\* line 50
Sender(is_from_me) == IF is_from_me THEN "Me" ELSE "Them"

\* one line (or block of lines) written to a stream
Line(kind, row, date, sender, text, id, n) ==
    [kind |-> kind, row |-> row, date |-> date, sender |-> sender,
     text |-> text, id |-> id, n |-> n]

\* lines 61-72 and 137-144: the diagnostics of debug mode
DebugLines(k, row, debug) ==
    IF debug /\ Truthy(row.attributed_body)
    THEN << Line(IF row.unarchived.kind = "raise" THEN "debug-error" ELSE "debug-decoded",
                 k, 0, "", <<>>, "", row.rowid) >>
    ELSE <<>>

\* lines 151-155: the message line of the k-th row
MessageLines(k, row, message_text, debug) ==
    IF HasText(message_text)
    THEN << Line("message", k, DateColumn(row.date), Sender(row.is_from_me),
                 message_text, "", 0) >>
    ELSE IF debug
    THEN << Line("placeholder", k, DateColumn(row.date), Sender(row.is_from_me),
                 <<>>, "", 0) >>
    ELSE <<>>

\* --------------------------------------------------------------- the inputs
\* the command line, sys.argv
Prog == "extract_messages.py"
IdArg == "+15551234567"
PathArg == "/tmp/chat.db"
ArgvForms ==
    { <<Prog>>,
      <<Prog, "list">>,
      <<Prog, "list", PathArg>>,
      <<Prog, "extract">>,
      <<Prog, "extract", IdArg>>,
      <<Prog, "extract", IdArg, PathArg>>,
      <<Prog, "extract", IdArg, "--debug">>,
      <<Prog, "extract", IdArg, PathArg, "--debug">>,
      <<Prog, "unknown">> }

\* line 192: str(Path.home() / "Library" / "Messages" / "chat.db")
default_db_path == "~/Library/Messages/chat.db"

\* the values of message.text
Texts ==
    { PyNone, <<>>, <<32, 32>>, ObjRepl, <<32, 104, 105, 32>>, <<72, 101, 108, 108, 111>> }

\* b"test data" of the test suite: not an archive, one printable run
TestData == <<116, 101, 115, 116, 32, 100, 97, 116, 97>>
\* bytes of an archive: "bplist00", a zero byte, and a printable run
ArchiveBytes == <<98, 112, 108, 105, 115, 116, 48, 48, 0>> \o TestData
Howdy == <<72, 111, 119, 100, 121, 33>>
NoDec == Dec("raise", <<>>, <<>>)

\* the values of message.attributedBody, each with what unarchive does with it
Payloads ==
    { [bytes |-> PyNone, unarchived |-> NoDec],
      [bytes |-> <<>>, unarchived |-> NoDec],
      [bytes |-> TestData, unarchived |-> NoDec],
      [bytes |-> <<0, 1, 255, 104, 105>>, unarchived |-> NoDec] }
    \cup { [bytes |-> ArchiveBytes, unarchived |-> Dec("attr", v, <<>>)] :
             v \in {Howdy, <<>>, <<32, 10>>, ObjRepl, <<32>> \o ObjRepl, PyNone} }
    \cup { [bytes |-> ArchiveBytes, unarchived |-> Dec("str", v, <<>>)] :
             v \in {Howdy, <<>>} }
    \cup { [bytes |-> ArchiveBytes, unarchived |-> Dec("dict", <<>>, d)] :
             d \in { << <<"NSString", Howdy>> >>,
                     << <<"string", <<32>> >>, <<"other", Howdy>> >>,
                     << <<"text", PyNone>>, <<"a", <<32>> >>, <<"b", Howdy>> >>,
                     << <<"NSString", <<>> >>, <<"a", PyNone>> >> } }
    \cup { [bytes |-> ArchiveBytes, unarchived |-> Dec("other", <<>>, <<>>)] }

Row(rowid, text, payload, date, is_from_me) ==
    [rowid |-> rowid, text |-> text, attributed_body |-> payload.bytes,
     unarchived |-> payload.unarchived, date |-> date, is_from_me |-> is_from_me]

\* every combination of plain text and payload, for a conversation of one message
AllRows ==
    { Row(1, t, p, 1, m) : t \in Texts, p \in Payloads, m \in BOOLEAN }

\* the messages of the conversations of several messages
BatchRows ==
    { Row(c[1], c[2], c[3], d, c[4]) :
        c \in { <<1, <<72, 101, 108, 108, 111>>, [bytes |-> PyNone, unarchived |-> NoDec], TRUE>>,
                <<2, ObjRepl, [bytes |-> PyNone, unarchived |-> NoDec], FALSE>>,
                <<3, PyNone, [bytes |-> TestData, unarchived |-> NoDec], TRUE>>,
                <<4, <<32, 104, 105, 32>>, [bytes |-> <<0, 1, 255, 104, 105>>, unarchived |-> NoDec], FALSE>>,
                <<5, PyNone, [bytes |-> <<0, 1, 255, 104, 105>>, unarchived |-> NoDec], TRUE>>,
                <<6, PyNone, [bytes |-> ArchiveBytes, unarchived |-> Dec("attr", Howdy, <<>>)], FALSE>>,
                <<7, <<72, 101, 108, 108, 111>>, [bytes |-> ArchiveBytes, unarchived |-> Dec("attr", ObjRepl, <<>>)], TRUE>>,
                <<8, PyNone, [bytes |-> ArchiveBytes, unarchived |-> Dec("other", <<>>, <<>>)], FALSE>> },
        d \in 1..MaxDate }

ChatIds == {IdArg, "test@example.com"}

\* sequences over S of length at most n
SeqsUpTo(S, n) == UNION { [1..k -> S] : k \in 0..n }

\* the stores: the rows of chat_message_join, each with its chat and message
Stores ==
    SeqsUpTo([chat : ChatIds, msg : BatchRows], MaxRows)
    \cup { << [chat |-> c, msg |-> r] >> : c \in ChatIds, r \in AllRows }

\* line 39: WHERE chat.chat_identifier = ?
RECURSIVE SelectChat(_, _)
SelectChat(store, id) ==
    IF store = <<>> THEN <<>>
    ELSE IF Head(store).chat = id
    THEN <<Head(store).msg>> \o SelectChat(Tail(store), id)
    ELSE SelectChat(Tail(store), id)

IndexOrders(n) == { f \in [1..n -> 1..n] : \A a, b \in 1..n : a # b => f[a] # f[b] }

\* the query without its ORDER BY clause: the rows come in any order
OrderByDateAsc_NoOrder(rows) ==
    { [k \in 1..Len(rows) |-> rows[f[k]]] : f \in IndexOrders(Len(rows)) }

\* line 40: ORDER BY message.date ASC; rows of equal date come in any order
OrderByDateAsc(rows) ==
    { [k \in 1..Len(rows) |-> rows[f[k]]] : f \in
        { g \in IndexOrders(Len(rows)) :
            \A a, b \in 1..Len(rows) : a < b => rows[g[a]].date <= rows[g[b]].date } }

\* lines 171-176: one (chat_identifier, message_count) row per chat of the
\* store, ORDER BY message_count DESC; chats of equal count come in any order
ChatCount(store, id) == Len(SelectChat(store, id))
ChatsOf(store) == { id \in ChatIds : ChatCount(store, id) > 0 }
GroupByCountDesc(store) ==
    { s \in [1..Cardinality(ChatsOf(store)) -> ChatsOf(store)] :
        /\ \A a, b \in DOMAIN s : a # b => s[a] # s[b]
        /\ \A a, b \in DOMAIN s :
             a < b => ChatCount(store, s[a]) >= ChatCount(store, s[b]) }

\* ------------------------------------------------------------------ state
VARIABLES
    argv,             \* sys.argv
    pc,               \* where the process is
    called,           \* the function main has called, with its arguments
    db_path, chat_identifier, debug,
    conn,             \* the connection: "none", "open", "closed"
    opens,            \* how many times sqlite3.connect has succeeded
    messages,         \* cursor.fetchall() of extract_messages
    idx,              \* the row the for loop of line 48 is at (from 1)
    stdout, stderr,   \* what has been printed
    exit_code,        \* the exit status; -1 while the process runs
    log,              \* per processed row: what its decoding did
    scan_body, scan_i, candidate_texts, scan_pc, scan_result   \* a byte scan

progvars == <<argv, pc, called, db_path, chat_identifier, debug, conn, opens,
              messages, idx, stdout, stderr, exit_code, log>>
scanvars == <<scan_body, scan_i, candidate_texts, scan_pc, scan_result>>
vars == <<argv, pc, called, db_path, chat_identifier, debug, conn, opens,
          messages, idx, stdout, stderr, exit_code, log,
          scan_body, scan_i, candidate_texts, scan_pc, scan_result>>

Text(name) == Line(name, 0, 0, "", <<>>, "", 0)

ScanIdle ==
    /\ scan_body = <<>>
    /\ scan_i = 0
    /\ candidate_texts = <<>>
    /\ scan_pc = "idle"
    /\ scan_result = PyNone

ProgStart ==
    /\ pc = "main"
    /\ called = "none"
    /\ db_path = ""
    /\ chat_identifier = ""
    /\ debug = FALSE
    /\ conn = "none"
    /\ opens = 0
    /\ messages = <<>>
    /\ idx = 0
    /\ stdout = <<>>
    /\ stderr = <<>>
    /\ exit_code = -1
    /\ log = <<>>

Init ==
    /\ argv \in ArgvForms
    /\ ProgStart
    /\ ScanIdle

\* sys.argv[k] and len(sys.argv)
Arg(k) == argv[k + 1]
Argc == Len(argv)

\* sys.exit(code), or the end of main
Exit(code) ==
    /\ pc' = "exited"
    /\ exit_code' = code

\* an exception nothing catches: the traceback goes to stderr, the status is 1
Uncaught ==
    /\ stderr' = Append(stderr, Text("traceback"))
    /\ Exit(1)

\* ------------------------------------------------------------------- main
\* lines 194-199
MainNoCommand ==
    /\ pc = "main"
    /\ Argc < 2
    /\ stdout' = stdout \o <<Text("usage")>>
    /\ Exit(1)
    /\ UNCHANGED <<argv, called, db_path, chat_identifier, debug, conn, opens,
                   messages, idx, stderr, log>>
    /\ UNCHANGED scanvars

\* lines 203-205
MainList ==
    /\ pc = "main"
    /\ Argc >= 2
    /\ Arg(1) = "list"
    /\ db_path' = IF Argc > 2 THEN Arg(2) ELSE default_db_path
    /\ called' = "list_chats"
    /\ pc' = "list_chats"
    /\ UNCHANGED <<argv, chat_identifier, debug, conn, opens, messages, idx,
                   stdout, stderr, exit_code, log>>
    /\ UNCHANGED scanvars

\* lines 206-209
MainExtractNoId ==
    /\ pc = "main"
    /\ Argc >= 2
    /\ Arg(1) = "extract"
    /\ Argc < 3
    /\ stdout' = stdout \o <<Text("chat_identifier required")>>
    /\ Exit(1)
    /\ UNCHANGED <<argv, called, db_path, chat_identifier, debug, conn, opens,
                   messages, idx, stderr, log>>
    /\ UNCHANGED scanvars

\* lines 210-213
MainExtract ==
    /\ pc = "main"
    /\ Argc >= 3
    /\ Arg(1) = "extract"
    /\ chat_identifier' = Arg(2)
    /\ db_path' = IF Argc > 3 THEN Arg(3) ELSE default_db_path
    /\ debug' = (\E k \in 0..(Argc - 1) : Arg(k) = "--debug")
    /\ called' = "extract_messages"
    /\ pc' = "extract_messages"
    /\ UNCHANGED <<argv, conn, opens, messages, idx, stdout, stderr, exit_code, log>>
    /\ UNCHANGED scanvars

\* lines 214-216
MainUnknown ==
    /\ pc = "main"
    /\ Argc >= 2
    /\ Arg(1) \notin {"list", "extract"}
    /\ stdout' = stdout \o <<Text("unknown command")>>
    /\ Exit(1)
    /\ UNCHANGED <<argv, called, db_path, chat_identifier, debug, conn, opens,
                   messages, idx, stderr, log>>
    /\ UNCHANGED scanvars

\* ------------------------------------------------------- the store connection
\* lines 22-25 and 164-167: sqlite3.connect raised a DatabaseError
ConnectFail(at) ==
    /\ pc = at
    /\ stderr' = stderr \o <<Text("Error connecting to database"),
                             Text("Full Disk Access hint")>>
    /\ Exit(1)
    /\ UNCHANGED <<argv, called, db_path, chat_identifier, debug, conn, opens,
                   messages, idx, stdout, log>>
    /\ UNCHANGED scanvars

\* lines 21, 26 and 163, 168: sqlite3.connect returned a connection
Connect(at, next) ==
    /\ pc = at
    /\ conn' = "open"
    /\ opens' = opens + 1
    /\ pc' = next
    /\ UNCHANGED <<argv, called, db_path, chat_identifier, debug, messages, idx,
                   stdout, stderr, exit_code, log>>
    /\ UNCHANGED scanvars

\* lines 43-44 and 179-180: execute or fetchall raised (the file is not a
\* database, a table is missing); nothing catches it
QueryFail(at) ==
    /\ pc = at
    /\ Uncaught
    /\ UNCHANGED <<argv, called, db_path, chat_identifier, debug, conn, opens,
                   messages, idx, stdout, log>>
    /\ UNCHANGED scanvars

\* ------------------------------------------------------------ list_chats
ListConnectFail == ConnectFail("list_chats")
ListConnect == Connect("list_chats", "list_query")
ListQueryFail == QueryFail("list_query")

\* lines 179-184
ListQuery ==
    /\ pc = "list_query"
    /\ \E store \in Stores : \E chats \in GroupByCountDesc(store) :
         stdout' = stdout \o <<Text("Available chats:")>>
                   \o [k \in 1..Len(chats) |->
                         Line("chat", k, 0, "", <<>>, chats[k], ChatCount(store, chats[k]))]
    /\ pc' = "list_close"
    /\ UNCHANGED <<argv, called, db_path, chat_identifier, debug, conn, opens,
                   messages, idx, stderr, exit_code, log>>
    /\ UNCHANGED scanvars

\* line 186, and the return to main and the end of the process
ListClose ==
    /\ pc = "list_close"
    /\ conn' = "closed"
    /\ Exit(0)
    /\ UNCHANGED <<argv, called, db_path, chat_identifier, debug, opens,
                   messages, idx, stdout, stderr, log>>
    /\ UNCHANGED scanvars

\* --------------------------------------------------------- extract_messages
ExtractConnectFail == ConnectFail("extract_messages")
ExtractConnect == Connect("extract_messages", "extract_query")
ExtractQueryFail == QueryFail("extract_query")

\* lines 43-46
ExtractQuery ==
    /\ pc = "extract_query"
    /\ \E store \in Stores :
         messages' \in OrderByDateAsc(SelectChat(store, chat_identifier))
    /\ stdout' = stdout \o <<Line("header", 0, 0, "", <<>>, chat_identifier, Len(messages'))>>
    /\ idx' = 1
    /\ pc' = "extract_loop"
    /\ UNCHANGED <<argv, called, db_path, chat_identifier, debug, conn, opens,
                   stderr, exit_code, log>>
    /\ UNCHANGED scanvars

\* lines 48-155: one iteration of the for loop
ExtractRow ==
    /\ pc = "extract_loop"
    /\ idx <= Len(messages)
    /\ LET row == messages[idx]
           dec == DecodeBody(row)
           message_text == Fallback(dec.message_text, row.text)
       IN  IF dec.escaped
           THEN /\ Uncaught
                /\ UNCHANGED <<idx, stdout, log>>
           ELSE /\ stdout' = stdout \o DebugLines(idx, row, debug)
                                     \o MessageLines(idx, row, message_text, debug)
                /\ log' = Append(log, [raised |-> dec.raised, scanned |-> dec.scanned,
                                       decoded |-> dec.message_text,
                                       message_text |-> message_text])
                /\ idx' = idx + 1
                /\ UNCHANGED <<pc, exit_code, stderr>>
    /\ UNCHANGED <<argv, called, db_path, chat_identifier, debug, conn, opens, messages>>
    /\ UNCHANGED scanvars

\* line 157, and the return to main and the end of the process
ExtractClose ==
    /\ pc = "extract_loop"
    /\ idx > Len(messages)
    /\ conn' = "closed"
    /\ Exit(0)
    /\ UNCHANGED <<argv, called, db_path, chat_identifier, debug, opens,
                   messages, idx, stdout, stderr, log>>
    /\ UNCHANGED scanvars

Next ==
    \/ MainNoCommand
    \/ MainList
    \/ MainExtractNoId
    \/ MainExtract
    \/ MainUnknown
    \/ ListConnectFail
    \/ ListConnect
    \/ ListQueryFail
    \/ ListQuery
    \/ ListClose
    \/ ExtractConnectFail
    \/ ExtractConnect
    \/ ExtractQueryFail
    \/ ExtractQuery
    \/ ExtractRow
    \/ ExtractClose

Spec == Init /\ [][Next]_vars

\* ================================================================ the claims
\* a text that is non-empty after trimming and is not U+FFFC
Valid(s) == s # PyNone /\ Strip(s) # <<>> /\ Strip(s) # ObjRepl

\* the positions in stdout of the message lines of the k-th row
MessageLinesOf(k) ==
    { p \in DOMAIN stdout : stdout[p].kind \in {"message", "placeholder"} /\ stdout[p].row = k }
TextLinesOf(k) ==
    { p \in DOMAIN stdout : stdout[p].kind = "message" /\ stdout[p].row = k }
Headers == { p \in DOMAIN stdout : stdout[p].kind = "header" }
Fetched == Headers # {}

\* C1: a decode failure never aborts the batch. Once extract_messages has
\* fetched N rows, whatever their payloads are, no exception ends the run
\* (no traceback, no status 1), the run can always continue until every row
\* has been processed and then ends normally with status 0, the header
\* reports exactly N, and every row processed after a row whose payload
\* failed to decode is processed with its own fields: when its display text
\* is valid, its message line with that text is emitted.
C1_DecodeFailureNeverAborts ==
    Fetched =>
        /\ exit_code \in {-1, 0}
        /\ stderr = <<>>
        /\ Cardinality(Headers) = 1
        /\ \A p \in Headers : stdout[p].n = Len(messages)
        /\ Len(log) = idx - 1
        /\ Len(log) <= Len(messages)
        /\ pc = "extract_loop" =>
             \/ idx = Len(messages) + 1
             \/ idx <= Len(messages) /\ ~DecodeBody(messages[idx]).escaped
        /\ pc # "extract_loop" =>
             pc = "exited" /\ exit_code = 0 /\ Len(log) = Len(messages)
        /\ \A j, k \in 1..Len(log) :
             (j < k /\ log[j].raised /\ Valid(log[k].message_text)) =>
                \E p \in TextLinesOf(k) : stdout[p].text = log[k].message_text

\* C1 witness: a run ended normally in which the first row's payload failed
\* to decode and the second row was emitted with its text
C1_Witness ==
    /\ pc = "exited"
    /\ exit_code = 0
    /\ Len(log) = 2
    /\ log[1].raised
    /\ Valid(log[2].message_text)
    /\ TextLinesOf(2) # {}

\* C2: every message line emitted with a text carries a text that is
\* non-empty after trimming and is not U+FFFC, and that text is the plain
\* text field or the decoded payload.
C2_EmittedTextIsValid ==
    \A p \in DOMAIN stdout :
        stdout[p].kind = "message" =>
            /\ Valid(stdout[p].text)
            /\ \/ stdout[p].text = messages[stdout[p].row].text
               \/ stdout[p].text = log[stdout[p].row].decoded

\* C3 as stated: emitted messages are in strictly ascending timestamp order
C3_StrictlyAscending ==
    \A p, q \in DOMAIN stdout :
        (/\ p < q
         /\ stdout[p].kind \in {"message", "placeholder"}
         /\ stdout[q].kind \in {"message", "placeholder"}) =>
            messages[stdout[p].row].date < messages[stdout[q].row].date

\* C3 as amended: emitted messages are in ascending (non-decreasing)
\* timestamp order: of two emitted messages the earlier one's store
\* timestamp is less than or equal to the later one's.
C3_Ascending ==
    \A p, q \in DOMAIN stdout :
        (/\ p < q
         /\ stdout[p].kind \in {"message", "placeholder"}
         /\ stdout[q].kind \in {"message", "placeholder"}) =>
            messages[stdout[p].row].date <= messages[stdout[q].row].date

\* C3 witness: two messages of different timestamps have been emitted
C3_Witness ==
    /\ Len(messages) = 2
    /\ messages[1].date # messages[2].date
    /\ MessageLinesOf(1) # {}
    /\ MessageLinesOf(2) # {}

\* the cases of the command line
NoCommand == Argc < 2
ExtractWithoutId == Argc = 2 /\ Arg(1) = "extract"
UnknownCommand == Argc >= 2 /\ Arg(1) \notin {"list", "extract"}
ArgumentError == NoCommand \/ ExtractWithoutId \/ UnknownCommand
HintPrinted == \E p \in DOMAIN stderr : stderr[p].kind = "Full Disk Access hint"
StoreNotOpened == called # "none" /\ opens = 0 /\ HintPrinted

\* C4: the process exits with status 1 exactly when no command is given,
\* the store cannot be opened (with the permission hint on the error stream),
\* extract is given without an identifier, or the command is unrecognized;
\* every other invocation runs to completion with status 0; in the argument
\* error cases neither list_chats nor extract_messages is invoked.
C4_ExitStatus ==
    pc = "exited" =>
        /\ exit_code \in {0, 1}
        /\ exit_code = 1 <=> (ArgumentError \/ StoreNotOpened)
        /\ exit_code = 0 => conn = "closed"
        /\ ArgumentError => called = "none"

\* the store_path and --debug of `list [store_path]` and
\* `extract <id> [store_path] [--debug]`
GivenStorePath ==
    IF Arg(1) = "list"
    THEN IF Argc > 2 THEN Arg(2) ELSE default_db_path
    ELSE IF Argc > 3 /\ Arg(3) # "--debug" THEN Arg(3) ELSE default_db_path
GivenDebug == Arg(Argc - 1) = "--debug"

\* C5: main passes the given store_path when one is present and the default
\* location when it is omitted, and debug = true exactly when --debug is
\* present; `extract <id> --debug` uses the default location with debug on.
C5_StorePathAndDebug ==
    called # "none" =>
        /\ db_path = GivenStorePath
        /\ called = "extract_messages" => (debug <=> GivenDebug)

\* C6: per message, in non-debug mode exactly one message line when the
\* message has display text (a text that is non-empty after trimming and not
\* U+FFFC) and no line otherwise; in debug mode exactly one message line,
\* which is the placeholder exactly when the message has no display text.
C6_LinesPerMessage ==
    \A k \in 1..Len(log) :
        /\ Cardinality(MessageLinesOf(k)) =
              IF debug \/ Valid(log[k].message_text) THEN 1 ELSE 0
        /\ \A p \in MessageLinesOf(k) :
              stdout[p].kind = "placeholder" <=> ~Valid(log[k].message_text)

\* C7: the plain text field is the display text exactly when both decode
\* tiers yield nothing (an empty, whitespace-only or U+FFFC decoded value
\* counts as nothing) and the field is non-empty after trimming and not
\* U+FFFC; it is then shown verbatim. Otherwise a decoded text is shown as
\* decoded, and a message with neither has no text line.
C7_PlainTextFallback ==
    \A k \in 1..Len(log) :
        LET text == messages[k].text
            nothing == ~Valid(log[k].decoded)
        IN  /\ (nothing /\ Valid(text)) =>
                 /\ TextLinesOf(k) # {}
                 /\ \A p \in TextLinesOf(k) : stdout[p].text = text
            /\ ~nothing =>
                 /\ TextLinesOf(k) # {}
                 /\ \A p \in TextLinesOf(k) : stdout[p].text = log[k].decoded
            /\ (nothing /\ ~Valid(text)) => TextLinesOf(k) = {}

\* the structured decode of the k-th row parsed the payload and found no text
ParsedNoText(k) ==
    /\ Truthy(messages[k].attributed_body)
    /\ messages[k].unarchived.kind # "raise"
    /\ ~Truthy(log[k].decoded)

\* C8: the byte scan runs for a message if and only if its payload is
\* present and non-empty and the structured decode raised; when the
\* structured decode parsed the payload and found no text, the scan is not
\* run and the message's text is the plain text field or nothing, even if
\* the raw bytes hold a qualifying printable run.
C8_ScanOnlyAfterTier1Error ==
    \A k \in 1..Len(log) :
        /\ log[k].scanned <=>
              /\ messages[k].attributed_body # PyNone
              /\ Len(messages[k].attributed_body) > 0
              /\ messages[k].unarchived.kind = "raise"
        /\ ParsedNoText(k) =>
              /\ ~log[k].scanned
              /\ log[k].message_text \in {messages[k].text, log[k].decoded}
              /\ \A p \in TextLinesOf(k) : stdout[p].text = messages[k].text

\* C8 witness: a run that processed a row whose payload parsed without text
\* although its bytes hold a qualifying run, and emitted nothing for it
C8_Witness ==
    /\ \E k \in 1..Len(log) :
          /\ ParsedNoText(k)
          /\ Tier2(messages[k].attributed_body) # PyNone
          /\ messages[k].text = PyNone
          /\ TextLinesOf(k) = {}
    /\ pc = "exited"

\* ------------------------------------------------- the byte scan, step by step
\* the payloads scanned: up to MaxPieces pieces, one after the other
Pieces ==
    { <<200>>, <<127, 31>>, <<10>>, <<13>>, <<32>>, <<120>>,
      <<49, 50, 51>>,
      <<78, 83, 85, 82, 76>>,
      <<97, 98, 99, 100, 101, 102>>,
      <<97, 98, 99, 100, 101, 103>> }

RECURSIVE Concat(_)
Concat(ps) == IF ps = <<>> THEN <<>> ELSE Head(ps) \o Concat(Tail(ps))

ScanInputs == { Concat(ps) : ps \in SeqsUpTo(Pieces, MaxPieces) }

\* lines 106-107: the scan starts on a payload whose structured decode raised
InitScan ==
    /\ argv = <<Prog>>
    /\ ProgStart
    /\ scan_body \in ScanInputs
    /\ scan_i = 0
    /\ candidate_texts = <<>>
    /\ scan_pc = "scan"
    /\ scan_result = PyNone

\* lines 108-128: one iteration of the while loop
ScanLoop ==
    /\ scan_pc = "scan"
    /\ ScanContinues(scan_body, scan_i)
    /\ LET s == ScanStep(scan_body, scan_i, candidate_texts)
       IN  /\ scan_i' = s.i
           /\ candidate_texts' = s.cands
    /\ UNCHANGED <<scan_body, scan_pc, scan_result>>
    /\ UNCHANGED progvars

\* lines 131-133: the loop has ended; the longest candidate is taken
ScanSelect ==
    /\ scan_pc = "scan"
    /\ ~ScanContinues(scan_body, scan_i)
    /\ scan_result' = SelectCandidate(candidate_texts)
    /\ scan_pc' = "done"
    /\ UNCHANGED <<scan_body, scan_i, candidate_texts>>
    /\ UNCHANGED progvars

NextScan ==
    \/ ScanLoop
    \/ ScanSelect

SpecScan == InitScan /\ [][NextScan]_vars

\* the reference selection: the maximal runs of bytes in 32..126, 10, 13
RefRunByte(b) == b \in (32..126) \cup {10, 13}
RefStarts(body) ==
    { a \in 1..Len(body) :
        RefRunByte(body[a]) /\ (a = 1 \/ ~RefRunByte(body[a - 1])) }
RefEnds(body) ==
    { b \in 1..Len(body) :
        RefRunByte(body[b]) /\ (b = Len(body) \/ ~RefRunByte(body[b + 1])) }
RefRuns(body) ==
    { r \in RefStarts(body) \X RefEnds(body) :
        /\ r[1] <= r[2]
        /\ \A b \in RefEnds(body) : ~(r[1] <= b /\ b < r[2]) }
RefContent(body, r) == Strip(SubSeq(body, r[1], r[2]))
RefCandidates(body) ==
    { r \in RefRuns(body) :
        /\ Len(RefContent(body, r)) > 5
        /\ \A keyword \in skip_keywords : ~Contains(RefContent(body, r), keyword)
        /\ ~IsDigit(RemoveSpaces(RefContent(body, r))) }
RefLongest(body) ==
    { r \in RefCandidates(body) :
        \A q \in RefCandidates(body) :
            Len(RefContent(body, q)) <= Len(RefContent(body, r)) }

ScanResultMatchesReference ==
    scan_pc = "done" =>
        LET cands == RefCandidates(scan_body)
            texts == { RefContent(scan_body, r) : r \in cands }
        IN  /\ Len(candidate_texts) = Cardinality(cands)
            /\ { candidate_texts[p][2] : p \in DOMAIN candidate_texts } = texts
            /\ IF cands = {}
               THEN scan_result = PyNone
               ELSE /\ scan_result \in texts
                    /\ \A t \in texts : Len(t) <= Len(scan_result)

\* C9: on every byte sequence the scan terminates (each iteration moves i
\* forward, i never passes the end, and the loop ends once i reaches
\* len - 4) and its result equals the reference selection over the maximal
\* runs of bytes in 32..126, 10, 13: the candidates are exactly the runs whose
\* trimmed content is longer than 5, holds no metadata substring and is not
\* all digits after removing spaces; the result is a candidate of maximal
\* trimmed length, and nothing when there is no candidate.
C9_ScanMatchesReference ==
    /\ [](ScanResultMatchesReference /\ scan_i \in 0..Len(scan_body))
    /\ [][scan_pc = "scan" => (scan_i' > scan_i \/ scan_pc' = "done")]_vars

\* C9 witness: a finished scan whose result is the content of a run that
\* starts with a carriage return (the code starts it one byte later), on a
\* payload that ends with a run starting within its last 4 bytes
C9_Witness ==
    /\ scan_pc = "done"
    /\ \E r \in RefCandidates(scan_body) :
          /\ scan_body[r[1]] = 13
          /\ scan_result = RefContent(scan_body, r)
    /\ \E q \in RefRuns(scan_body) : q[1] > Len(scan_body) - 4

\* C10: when several candidate runs share the maximal length, the one that
\* occurs first in scan order is the decoded text.
C10_FirstOccurrenceWins ==
    (scan_pc = "done" /\ RefCandidates(scan_body) # {}) =>
        \E r \in RefLongest(scan_body) :
            /\ \A q \in RefLongest(scan_body) : r[1] <= q[1]
            /\ scan_result = RefContent(scan_body, r)

\* C11: in every invocation of extract_messages and list_chats the store
\* connection is opened exactly once (never a second time, and once whenever
\* the operation gets past sqlite3.connect) and, once opened, it has been
\* closed when the operation returns or the process ends, on every path,
\* also when the query or the reading of its results fails.
C11_ConnectionOpenedOnceAndClosed ==
    /\ opens <= 1
    /\ conn = "none" <=> opens = 0
    /\ pc \in {"list_query", "list_close", "extract_query", "extract_loop"} =>
          opens = 1 /\ conn = "open"
    /\ (pc = "exited" /\ opens = 1) => conn = "closed"

====
